---- MODULE Spec2Model ----
(***************************************************************************)
(* Model of the interactive supervisor that create_run_agent_commands      *)
(* (src/my_agent/__init__.py) generates: the expect script run-agent.exp   *)
(* with its three pattern rules, its eof and timeout branches, and the     *)
(* run-agent.sh wrapper that propagates the exit code.                     *)
(*                                                                         *)
(* Text is modelled at character level: a character is a one-character     *)
(* string, a text is a sequence of characters.  CR, LF and ETX stand for   *)
(* the control characters 0x0d, 0x0a and 0x03.  Time is counted in tenths  *)
(* of a second.                                                            *)
(***************************************************************************)
EXTENDS Integers, Sequences, FiniteSets, TLC

VARIABLES pc, task_done, buf, sent, timer, elapsed, exit_code, outcome,
          shell_code, child, child_code, printed, nread, exited_in_grace,
          agent, bin_ok, spawn_id, late_send,
          tpc, instruction, wire,
          apc, agent_path, script_agent, which_out, installed, calls

\* the session: run-agent.sh, run-agent.exp and the child
svars == <<pc, task_done, buf, sent, timer, elapsed, exit_code, outcome,
           shell_code, child, child_code, printed, nread, exited_in_grace,
           agent, bin_ok, spawn_id, late_send>>

\* the transport of the instruction
tvars == <<tpc, instruction, wire>>

\* the MyAgent object
avars == <<apc, agent_path, script_agent, which_out, installed, calls>>

vars == <<svars, tvars, avars>>

----------------------------------------------------------------------------
(* Bounds of the model *)

\* number of phrases the child prints in one session
MaxOut == 2

\* length, in tenths of a second, of one step of idle waiting
TickStep == 5000

\* idle waiting is also followed up to this many tenths of a second before
\* the deadline
NearGap == 1

\* time, in tenths of a second, between the start of the enclosing command
\* and the spawn of the child
StartupDelay == 1

----------------------------------------------------------------------------
(* Characters *)

BS == "\\"
CR == "CR"
LF == "LF"
ETX == "ETX"

Min(S) == CHOOSE x \in S : \A y \in S : x <= y
Max(S) == CHOOSE x \in S : \A y \in S : x >= y

RECURSIVE Concat(_)
Concat(ss) == IF ss = <<>> THEN <<>> ELSE Head(ss) \o Concat(Tail(ss))

----------------------------------------------------------------------------
(* The pattern and send literals, as they are written in the Python source *)

\* "\\[Y/n\\]|\\[y/N\\]|\\(yes/no\\)"
ConfirmSrc ==
  << BS, BS, "[", "Y", "/", "n", BS, BS, "]", "|",
     BS, BS, "[", "y", "/", "N", BS, BS, "]", "|",
     BS, BS, "(", "y", "e", "s", "/", "n", "o", BS, BS, ")" >>

\* "1\\. Yes|1\\. Continue|1\\. Accept"
ChoiceSrc ==
  << "1", BS, BS, ".", " ", "Y", "e", "s", "|",
     "1", BS, BS, ".", " ", "C", "o", "n", "t", "i", "n", "u", "e", "|",
     "1", BS, BS, ".", " ", "A", "c", "c", "e", "p", "t" >>

\* "Done|Completed|Finished|Success"
DoneSrc ==
  << "D", "o", "n", "e", "|",
     "C", "o", "m", "p", "l", "e", "t", "e", "d", "|",
     "F", "i", "n", "i", "s", "h", "e", "d", "|",
     "S", "u", "c", "c", "e", "s", "s" >>

\* send "y\\r"
SendYesSrc == << "y", BS, BS, "r" >>

\* send "\\r"
SendEnterSrc == << BS, BS, "r" >>

\* send "\\x03"
SendIntSrc == << BS, BS, "x", "0", "3" >>

----------------------------------------------------------------------------
(* What the Python string literal and the Tcl word do to the text *)

\* The script is a non-raw Python string: a doubled backslash is one backslash.
RECURSIVE PyUnescape(_)
PyUnescape(s) ==
  IF s = <<>> THEN <<>>
  ELSE IF Len(s) >= 2 /\ s[1] = BS /\ s[2] = BS
       THEN <<BS>> \o PyUnescape(SubSeq(s, 3, Len(s)))
       ELSE <<Head(s)>> \o PyUnescape(Tail(s))

\* Backslash substitution of a Tcl double-quoted word: \r, \n and \x03 are
\* control characters, a backslash before any other character yields that
\* character.
RECURSIVE TclUnescape(_)
TclUnescape(s) ==
  IF s = <<>> THEN <<>>
  ELSE IF s[1] = BS /\ Len(s) >= 2
       THEN IF s[2] = "r" THEN <<CR>> \o TclUnescape(SubSeq(s, 3, Len(s)))
            ELSE IF s[2] = "n" THEN <<LF>> \o TclUnescape(SubSeq(s, 3, Len(s)))
            ELSE IF Len(s) >= 4 /\ s[2] = "x" /\ s[3] = "0" /\ s[4] = "3"
                 THEN <<ETX>> \o TclUnescape(SubSeq(s, 5, Len(s)))
            ELSE <<s[2]>> \o TclUnescape(SubSeq(s, 3, Len(s)))
       ELSE <<Head(s)>> \o TclUnescape(Tail(s))

\* The word the expect interpreter receives
ExpectWord(src) == TclUnescape(PyUnescape(src))

----------------------------------------------------------------------------
(* Regular expressions, as the Tcl regexp engine reads them.  A regular    *)
(* expression is a sequence of branches, a branch is a sequence of atoms,  *)
(* an atom is the set of characters it accepts.                            *)

Keywords ==
  << <<"D", "o", "n", "e">>,
     <<"C", "o", "m", "p", "l", "e", "t", "e", "d">>,
     <<"F", "i", "n", "i", "s", "h", "e", "d">>,
     <<"S", "u", "c", "c", "e", "s", "s">> >>

\* the texts the child can print
Phrases ==
  { <<"[", "Y", "/", "n", "]">>,
    <<"(", "y", "e", "s", "/", "n", "o", ")">>,
    <<"S", "u", "c", "c", "e", "s", "s">>,
    <<"D", "o", "n", "e">>,
    <<"S", "U", "C", "C", "E", "S", "S">>,
    <<"R", "u", "n", "n", "i", "n", "g">>,
    <<"1", ".", " ", "A", "c", "c", "e", "p", "t">> }

\* Scenario A: the binary prints "Proceed? [y/N]" and then "Task Success"
ScenarioA ==
  << <<"P", "r", "o", "c", "e", "e", "d", "?", " ", "[", "y", "/", "N", "]">>,
     <<"T", "a", "s", "k", " ", "S", "u", "c", "c", "e", "s", "s">> >>

\* a numbered choice that is not one of the three phrases of the script
NearChoice == << <<"1", "x", " ", "A", "c", "c", "e", "p", "t">> >>

\* the binaries the supervisor is run with: one that prints any of the
\* phrases, the binary of Scenario A, and one that prints the near choice
Agents == {"any", "scenario_a", "near_choice"}

\* what the binary can print next, after the phrases in done
NextOutputs(a, done, max) ==
  IF a = "any" THEN (IF Len(done) < max THEN Phrases ELSE {})
  ELSE IF a = "scenario_a"
       THEN (IF Len(done) < Len(ScenarioA) THEN {ScenarioA[Len(done) + 1]} ELSE {})
  ELSE (IF Len(done) < Len(NearChoice) THEN {NearChoice[Len(done) + 1]} ELSE {})

AllPhrases ==
  Phrases \cup {ScenarioA[i] : i \in 1..Len(ScenarioA)}
          \cup {NearChoice[i] : i \in 1..Len(NearChoice)}

Alphabet == UNION { {p[i] : i \in 1..Len(p)} : p \in AllPhrases }

\* position of the first "]" of s at or after position i (0 if none)
RECURSIVE CloseBracket(_, _)
CloseBracket(s, i) ==
  IF i > Len(s) THEN 0
  ELSE IF s[i] = "]" THEN i
  ELSE CloseBracket(s, i + 1)

\* A backslash quotes the next character, [...] is a bracket expression
\* accepting any one of its characters, "." accepts any character, "|"
\* separates branches, and the parentheses of a group without alternation
\* only group.
RECURSIVE ReParse(_, _, _)
ReParse(s, cur, acc) ==
  IF s = <<>> THEN Append(acc, cur)
  ELSE IF s[1] = "|" THEN ReParse(Tail(s), <<>>, Append(acc, cur))
  ELSE IF s[1] = BS /\ Len(s) >= 2
       THEN ReParse(SubSeq(s, 3, Len(s)), Append(cur, {s[2]}), acc)
  ELSE IF s[1] = "[" /\ CloseBracket(s, 3) > 0
       THEN LET k == CloseBracket(s, 3)
            IN  ReParse(SubSeq(s, k + 1, Len(s)),
                        Append(cur, {s[j] : j \in 2..(k - 1)}), acc)
  ELSE IF s[1] = "." THEN ReParse(Tail(s), Append(cur, Alphabet), acc)
  ELSE IF s[1] \in {"(", ")"} THEN ReParse(Tail(s), cur, acc)
  ELSE ReParse(Tail(s), Append(cur, {s[1]}), acc)

Regexp(word) == ReParse(word, <<>>, <<>>)

MatchesAt(branch, s, i) ==
  /\ i + Len(branch) - 1 <= Len(s)
  /\ \A k \in 1..Len(branch) : s[i + k - 1] \in branch[k]

MatchStarts(re, s) ==
  { i \in 1..Len(s) : \E b \in 1..Len(re) : MatchesAt(re[b], s, i) }

ReMatches(re, s) == MatchStarts(re, s) # {}

\* Tcl matches the earliest start and, there, the longest branch; expect
\* drops the buffer up to and including the end of the match.
MatchEnd(re, s) ==
  LET i == Min(MatchStarts(re, s))
  IN  Max({ i + Len(re[b]) - 1 : b \in { c \in 1..Len(re) : MatchesAt(re[c], s, i) } })

AfterMatch(re, s) == SubSeq(s, MatchEnd(re, s) + 1, Len(s))

\* the three -re patterns of the expect command, in the order of the script
ConfirmRe == Regexp(ExpectWord(ConfirmSrc))
ChoiceRe == Regexp(ExpectWord(ChoiceSrc))
DoneRe == Regexp(ExpectWord(DoneSrc))

ExpectPatterns == << ConfirmRe, ChoiceRe, DoneRe >>

\* expect takes the first pattern of the list that matches the buffer
\* (0: no pattern matches)
FirstRule(s) ==
  IF \E r \in 1..3 : ReMatches(ExpectPatterns[r], s)
  THEN Min({ r \in 1..3 : ReMatches(ExpectPatterns[r], s) })
  ELSE 0

----------------------------------------------------------------------------
(* Program constants *)

\* set timeout 1500 (seconds)
timeout == 1500

\* ExecInput(timeout_sec=1500) (seconds)
timeout_sec == 1500

\* sleep 0.3, in tenths of a second
ChoiceDelay == 3

\* sleep 2, in tenths of a second
GraceDelay == 20

\* exit 124
TimeoutCode == 124

\* exit status of an expect script that ends on an uncaught Tcl error
ErrorCode == 1

\* the timeout in tenths of a second
Deadline == timeout * 10

\* the timeout of the enclosing command in tenths of a second
HarnessDeadline == timeout_sec * 10

\* the clock since spawn is followed up to twice the timeout
ElapsedCap == 2 * Deadline

\* the exit codes a child can end with
ExitCodes == {0, 3}

\* no exit code yet
NoCode == 0 - 1

----------------------------------------------------------------------------
(* State *)

Advance(t, d) == IF t + d > ElapsedCap THEN ElapsedCap ELSE t + d

\* Python's None, as the value of an attribute
PyNone == << "<None>" >>

\* an attribute that was never assigned
PyMissing == << "<missing>" >>

TypeOK ==
  /\ pc \in {"spawn", "expect", "choice_sleep", "done_sleep", "exited",
             "reported", "cancelled"}
  /\ task_done \in {0, 1}
  /\ buf \in Seq(Alphabet)
  /\ sent \in Seq({CR, ETX, "y"})
  /\ timer \in 0..Deadline
  /\ elapsed \in 0..ElapsedCap
  /\ exit_code \in ExitCodes \cup {TimeoutCode, ErrorCode, NoCode}
  /\ outcome \in {"none", "eof", "timeout", "error"}
  /\ shell_code \in ExitCodes \cup {TimeoutCode, ErrorCode, NoCode}
  /\ child \in {"none", "running", "exited"}
  /\ child_code \in ExitCodes \cup {NoCode}
  /\ printed \in Seq(AllPhrases)
  /\ nread \in 0..Len(printed)
  /\ exited_in_grace \in BOOLEAN
  /\ agent \in Agents
  /\ bin_ok \in BOOLEAN
  /\ spawn_id \in {"none", "open", "closed"}
  /\ late_send \in BOOLEAN

\* the instruction transport is not followed
TransportOff ==
  /\ tpc = "off"
  /\ instruction = <<>>
  /\ wire = <<>>

\* the MyAgent object is not followed
ObjectOff ==
  /\ apc = "off"
  /\ agent_path = PyNone
  /\ script_agent = <<>>
  /\ which_out = <<>>
  /\ installed = FALSE
  /\ calls = 0

\* run-agent.exp before its spawn command: set timeout 1500, set
\* task_done 0; the binary is there and executable, or not; nothing has
\* been spawned, read or sent
Init ==
  /\ pc = "spawn"
  /\ task_done = 0
  /\ buf = <<>>
  /\ sent = <<>>
  /\ timer = 0
  /\ elapsed = 0
  /\ exit_code = NoCode
  /\ outcome = "none"
  /\ shell_code = NoCode
  /\ child = "none"
  /\ child_code = NoCode
  /\ printed = <<>>
  /\ nread = 0
  /\ exited_in_grace = FALSE
  /\ agent \in Agents
  /\ bin_ok \in BOOLEAN
  /\ spawn_id = "none"
  /\ late_send = FALSE
  /\ TransportOff
  /\ ObjectOff

----------------------------------------------------------------------------
(* The child *)

\* the child writes a phrase to its terminal (the supervisor holds the
\* other end of the terminal until it exits)
ChildOutput ==
  /\ child = "running"
  /\ pc \in {"expect", "choice_sleep", "done_sleep"}
  /\ \E p \in NextOutputs(agent, printed, MaxOut) : printed' = Append(printed, p)
  /\ UNCHANGED <<pc, task_done, buf, sent, timer, elapsed, exit_code, outcome,
                 shell_code, child, child_code, nread, exited_in_grace,
                 agent, bin_ok, spawn_id, late_send>>
  /\ UNCHANGED <<tvars, avars>>

\* the child ends with some exit code
ChildExit ==
  /\ child = "running"
  /\ child' = "exited"
  /\ \E n \in ExitCodes : child_code' = n
  /\ exited_in_grace' = (exited_in_grace \/ pc = "done_sleep")
  /\ UNCHANGED <<pc, task_done, buf, sent, timer, elapsed, exit_code, outcome,
                 shell_code, printed, nread, agent, bin_ok, spawn_id, late_send>>
  /\ UNCHANGED <<tvars, avars>>

----------------------------------------------------------------------------
(* The expect command *)

\* variant: spawn reports no error when the binary cannot be executed
SpawnResultNoCheck(ok) == "spawned"

\* spawn fails with a Tcl error when the binary is missing or not executable
SpawnResult(ok) == IF ok THEN "spawned" ELSE "error"

\* spawn $agent_bin "$instruction": the error of a failed spawn is not
\* caught and ends the script; otherwise the child runs on a new spawn id
\* and the expect command starts its timer
Spawn ==
  /\ pc = "spawn"
  /\ IF SpawnResult(bin_ok) = "spawned"
     THEN /\ pc' = "expect"
          /\ child' = "running"
          /\ spawn_id' = "open"
          /\ UNCHANGED <<exit_code, outcome>>
     ELSE /\ pc' = "exited"
          /\ outcome' = "error"
          /\ exit_code' = ErrorCode
          /\ UNCHANGED <<child, spawn_id>>
  /\ UNCHANGED <<task_done, buf, sent, timer, elapsed, shell_code, child_code,
                 printed, nread, exited_in_grace, agent, bin_ok, late_send>>
  /\ UNCHANGED <<tvars, avars>>

\* the expect command is blocked: no pattern matches the buffer, nothing is
\* left to read and the child has not closed its output
Blocked ==
  /\ pc = "expect"
  /\ FirstRule(buf) = 0
  /\ nread = Len(printed)
  /\ child = "running"

\* the lengths of idle waiting that are followed from timer value t: one
\* step, or up to just before the deadline
TickSteps(t) ==
  {IF t + TickStep > Deadline THEN Deadline - t ELSE TickStep}
    \cup (IF t < Deadline - NearGap THEN {Deadline - NearGap - t} ELSE {})

\* time passes while the expect command is blocked
Tick ==
  /\ Blocked
  /\ timer < Deadline
  /\ \E d \in TickSteps(timer) :
        /\ timer' = timer + d
        /\ elapsed' = Advance(elapsed, d)
  /\ UNCHANGED <<pc, task_done, buf, sent, exit_code, outcome, shell_code,
                 child, child_code, printed, nread, exited_in_grace,
                 agent, bin_ok, spawn_id, late_send>>
  /\ UNCHANGED <<tvars, avars>>

\* the expect command reads a chunk of what the child has written (all of
\* it or a part) and appends it to its buffer
Read ==
  /\ pc = "expect"
  /\ FirstRule(buf) = 0
  /\ nread < Len(printed)
  /\ \E k \in (nread + 1)..Len(printed) :
        /\ buf' = buf \o Concat(SubSeq(printed, nread + 1, k))
        /\ nread' = k
  /\ UNCHANGED <<pc, task_done, sent, timer, elapsed, exit_code, outcome,
                 shell_code, child, child_code, printed, exited_in_grace,
                 agent, bin_ok, spawn_id, late_send>>
  /\ UNCHANGED <<tvars, avars>>

\* variant: the write fails once the child has exited
SendResultEIO(c) == IF c = "exited" THEN "error" ELSE "ok"

\* send writes to the terminal of the spawn id.  The spawn id stays open
\* until eof is handled, and the terminal accepts the write whether or not
\* the child (state c) still runs.
SendResult(c) == "ok"

\* -re "\\[Y/n\\]|\\[y/N\\]|\\(yes/no\\)" { send "y\\r"; exp_continue }
\* exp_continue restarts the expect command and with it the timer.  No send
\* is wrapped in catch: a send that fails ends the script with a Tcl error.
ConfirmRule ==
  /\ pc = "expect"
  /\ FirstRule(buf) = 1
  /\ buf' = AfterMatch(ConfirmRe, buf)
  /\ late_send' = (late_send \/ child = "exited")
  /\ IF SendResult(child) = "ok"
     THEN /\ sent' = sent \o ExpectWord(SendYesSrc)
          /\ timer' = 0
          /\ UNCHANGED <<pc, exit_code, outcome>>
     ELSE /\ pc' = "exited"
          /\ outcome' = "error"
          /\ exit_code' = ErrorCode
          /\ UNCHANGED <<sent, timer>>
  /\ UNCHANGED <<task_done, elapsed, shell_code, child, child_code, printed,
                 nread, exited_in_grace, agent, bin_ok, spawn_id>>
  /\ UNCHANGED <<tvars, avars>>

\* -re "1\\. Yes|1\\. Continue|1\\. Accept" { sleep 0.3 ...
ChoiceRule ==
  /\ pc = "expect"
  /\ FirstRule(buf) = 2
  /\ buf' = AfterMatch(ChoiceRe, buf)
  /\ pc' = "choice_sleep"
  /\ UNCHANGED <<task_done, sent, timer, elapsed, exit_code, outcome,
                 shell_code, child, child_code, printed, nread, exited_in_grace,
                 agent, bin_ok, spawn_id, late_send>>
  /\ UNCHANGED <<tvars, avars>>

\* ... send "\\r"; exp_continue }
ChoiceSend ==
  /\ pc = "choice_sleep"
  /\ elapsed' = Advance(elapsed, ChoiceDelay)
  /\ late_send' = (late_send \/ child = "exited")
  /\ IF SendResult(child) = "ok"
     THEN /\ sent' = sent \o ExpectWord(SendEnterSrc)
          /\ timer' = 0
          /\ pc' = "expect"
          /\ UNCHANGED <<exit_code, outcome>>
     ELSE /\ pc' = "exited"
          /\ outcome' = "error"
          /\ exit_code' = ErrorCode
          /\ UNCHANGED <<sent, timer>>
  /\ UNCHANGED <<task_done, buf, shell_code, child, child_code, printed,
                 nread, exited_in_grace, agent, bin_ok, spawn_id>>
  /\ UNCHANGED <<tvars, avars>>

\* -re "Done|Completed|Finished|Success" { set task_done 1; sleep 2 ...
DoneRule ==
  /\ pc = "expect"
  /\ FirstRule(buf) = 3
  /\ buf' = AfterMatch(DoneRe, buf)
  /\ task_done' = 1
  /\ pc' = "done_sleep"
  /\ UNCHANGED <<sent, timer, elapsed, exit_code, outcome, shell_code, child,
                 child_code, printed, nread, exited_in_grace,
                 agent, bin_ok, spawn_id, late_send>>
  /\ UNCHANGED <<tvars, avars>>

\* ... send "\\x03"; exp_continue }
DoneSend ==
  /\ pc = "done_sleep"
  /\ elapsed' = Advance(elapsed, GraceDelay)
  /\ late_send' = (late_send \/ child = "exited")
  /\ IF SendResult(child) = "ok"
     THEN /\ sent' = sent \o ExpectWord(SendIntSrc)
          /\ timer' = 0
          /\ pc' = "expect"
          /\ UNCHANGED <<exit_code, outcome>>
     ELSE /\ pc' = "exited"
          /\ outcome' = "error"
          /\ exit_code' = ErrorCode
          /\ UNCHANGED <<sent, timer>>
  /\ UNCHANGED <<task_done, buf, shell_code, child, child_code, printed,
                 nread, exited_in_grace, agent, bin_ok, spawn_id>>
  /\ UNCHANGED <<tvars, avars>>

\* variant: the exit code is taken from index 2 of the wait result (the
\* OS error flag, 0 for a child that was waited for) instead of index 3
EofCodeWrongIndex == IF task_done = 1 THEN 0 ELSE 0

\* variant: the eof branch without its task_done test
EofCodeNoDone == child_code

\* variant: the eof branch with its task_done test inverted
EofCodeInverted == IF task_done = 1 THEN child_code ELSE 0

\* if {$task_done} { exit 0 }; exit $exit_code
EofCode == IF task_done = 1 THEN 0 ELSE child_code

\* variant: the eof branch ends with exp_continue instead of exit
EofNextContinue == "expect"

\* exit ends the script
EofNext == "exited"

\* eof { catch wait result; set exit_code [lindex $result 3]; ... }
EofBranch ==
  /\ pc = "expect"
  /\ FirstRule(buf) = 0
  /\ nread = Len(printed)
  /\ child = "exited"
  /\ exit_code' = EofCode
  /\ outcome' = "eof"
  /\ pc' = EofNext
  /\ spawn_id' = "closed"
  /\ UNCHANGED <<task_done, buf, sent, timer, elapsed, shell_code, child,
                 child_code, printed, nread, exited_in_grace,
                 agent, bin_ok, late_send>>
  /\ UNCHANGED <<tvars, avars>>

\* variant: the timeout branch without its task_done test
TimeoutExitNoDone == TimeoutCode

\* if {$task_done} { exit 0 }; exit 124
TimeoutExit == IF task_done = 1 THEN 0 ELSE TimeoutCode

\* timeout { puts "\\n=== Timeout ==="; ... }: no pattern has matched for
\* timeout seconds since the expect command was (re)started.  The branch
\* sends no signal to the child; exit closes the spawn id.
TimeoutBranch ==
  /\ pc = "expect"
  /\ FirstRule(buf) = 0
  /\ timer >= Deadline
  /\ exit_code' = TimeoutExit
  /\ outcome' = "timeout"
  /\ pc' = "exited"
  /\ spawn_id' = "closed"
  /\ UNCHANGED <<task_done, buf, sent, timer, elapsed, shell_code, child,
                 child_code, printed, nread, exited_in_grace,
                 agent, bin_ok, late_send>>
  /\ UNCHANGED <<tvars, avars>>

\* EXIT_CODE=$?; exit $EXIT_CODE
WrapperCode(code) == code

\* run-agent.sh reports the exit code of run-agent.exp
WrapperExit ==
  /\ pc = "exited"
  /\ shell_code' = WrapperCode(exit_code)
  /\ pc' = "reported"
  /\ UNCHANGED <<task_done, buf, sent, timer, elapsed, exit_code, outcome,
                 child, child_code, printed, nread, exited_in_grace,
                 agent, bin_ok, spawn_id, late_send>>
  /\ UNCHANGED <<tvars, avars>>

\* the time since the enclosing command was started: the script is decoded
\* and written, and run-agent.exp started, before the child is spawned
HarnessTime == StartupDelay + elapsed

\* ExecInput(command=..., timeout_sec=1500): the enclosing command is
\* cancelled when its own timeout has expired before run-agent.sh has
\* reported
HarnessCancel ==
  /\ pc \in {"expect", "choice_sleep", "done_sleep", "exited"}
  /\ HarnessTime >= HarnessDeadline
  /\ pc' = "cancelled"
  /\ UNCHANGED <<task_done, buf, sent, timer, elapsed, exit_code, outcome,
                 shell_code, child, child_code, printed, nread,
                 exited_in_grace, agent, bin_ok, spawn_id, late_send>>
  /\ UNCHANGED <<tvars, avars>>

Next ==
  \/ ChildOutput
  \/ ChildExit
  \/ Spawn
  \/ Tick
  \/ Read
  \/ ConfirmRule
  \/ ChoiceRule
  \/ ChoiceSend
  \/ DoneRule
  \/ DoneSend
  \/ EofBranch
  \/ TimeoutBranch
  \/ WrapperExit
  \/ HarnessCancel

Spec == Init /\ [][Next]_vars

-----------------------------------------------------------------------------
(* The way of the instruction from create_run_agent_commands to spawn *)

\* longest instruction followed, in bytes
MaxInstrLen == 3

NUL == 0
NL == 10
DOLLAR == 36
QUOTE == 39
LetterA == 97

\* bytes of instruction.encode(): a letter, a newline, a quote, a shell
\* metacharacter and a NUL
InstrBytes == {NUL, NL, DOLLAR, QUOTE, LetterA}

RECURSIVE SeqsUpTo(_, _)
SeqsUpTo(S, n) ==
  IF n = 0 THEN { <<>> }
  ELSE LET shorter == SeqsUpTo(S, n - 1)
       IN  shorter \cup { Append(s, b) : s \in shorter, b \in S }

Instructions == SeqsUpTo(InstrBytes, MaxInstrLen)

\* the session is not followed: run-agent.exp stays before its spawn command
SessionOff ==
  /\ pc = "spawn"
  /\ task_done = 0
  /\ buf = <<>>
  /\ sent = <<>>
  /\ timer = 0
  /\ elapsed = 0
  /\ exit_code = NoCode
  /\ outcome = "none"
  /\ shell_code = NoCode
  /\ child = "none"
  /\ child_code = NoCode
  /\ printed = <<>>
  /\ nread = 0
  /\ exited_in_grace = FALSE
  /\ agent = "any"
  /\ bin_ok = TRUE
  /\ spawn_id = "none"
  /\ late_send = FALSE

\* the character of the base64 alphabet for a six-bit value, as a byte
B64Char(v) ==
  IF v < 26 THEN 65 + v
  ELSE IF v < 52 THEN 97 + (v - 26)
  ELSE IF v < 62 THEN 48 + (v - 52)
  ELSE IF v = 62 THEN 43
  ELSE 47

B64Pad == 61

\* the six-bit value of a base64 character
B64Value(c) ==
  IF c >= 65 /\ c <= 90 THEN c - 65
  ELSE IF c >= 97 /\ c <= 122 THEN c - 97 + 26
  ELSE IF c >= 48 /\ c <= 57 THEN c - 48 + 52
  ELSE IF c = 43 THEN 62
  ELSE 63

\* base64.b64encode(bytes): three bytes make four characters; one or two
\* bytes left over make two or three characters and padding
RECURSIVE b64encode(_)
b64encode(bytes) ==
  IF Len(bytes) = 0 THEN <<>>
  ELSE IF Len(bytes) = 1 THEN
    LET n == bytes[1] * 65536
    IN  << B64Char(n \div 262144), B64Char((n \div 4096) % 64),
           B64Pad, B64Pad >>
  ELSE IF Len(bytes) = 2 THEN
    LET n == bytes[1] * 65536 + bytes[2] * 256
    IN  << B64Char(n \div 262144), B64Char((n \div 4096) % 64),
           B64Char((n \div 64) % 64), B64Pad >>
  ELSE
    LET n == bytes[1] * 65536 + bytes[2] * 256 + bytes[3]
    IN  << B64Char(n \div 262144), B64Char((n \div 4096) % 64),
           B64Char((n \div 64) % 64), B64Char(n % 64) >>
        \o b64encode(SubSeq(bytes, 4, Len(bytes)))

\* the characters of a text that are not newlines
RECURSIVE DropNewlines(_)
DropNewlines(text) ==
  IF text = <<>> THEN <<>>
  ELSE IF Head(text) = NL THEN DropNewlines(Tail(text))
  ELSE <<Head(text)>> \o DropNewlines(Tail(text))

\* four base64 characters give three bytes, fewer where there is padding
RECURSIVE DecodeGroups(_)
DecodeGroups(text) ==
  IF Len(text) < 4 THEN <<>>
  ELSE
    LET v3 == IF text[3] = B64Pad THEN 0 ELSE B64Value(text[3])
        v4 == IF text[4] = B64Pad THEN 0 ELSE B64Value(text[4])
        n == B64Value(text[1]) * 262144 + B64Value(text[2]) * 4096
               + v3 * 64 + v4
        bytes == << n \div 65536, (n \div 256) % 256, n % 256 >>
        kept == IF text[3] = B64Pad THEN 1
                ELSE IF text[4] = B64Pad THEN 2 ELSE 3
    IN  SubSeq(bytes, 1, kept) \o DecodeGroups(SubSeq(text, 5, Len(text)))

\* base64 -d: newlines in the input are skipped
Base64Decode(text) == DecodeGroups(DropNewlines(text))

\* echo "text": the text and a newline
Echo(text) == text \o <<NL>>

\* a byte sequence without the newlines at its end
RECURSIVE StripTrailingNewlines(_)
StripTrailingNewlines(bytes) ==
  IF bytes # <<>> /\ bytes[Len(bytes)] = NL
  THEN StripTrailingNewlines(SubSeq(bytes, 1, Len(bytes) - 1))
  ELSE bytes

\* a byte sequence without its NUL bytes
RECURSIVE DropNul(_)
DropNul(bytes) ==
  IF bytes = <<>> THEN <<>>
  ELSE IF Head(bytes) = NUL THEN DropNul(Tail(bytes))
  ELSE <<Head(bytes)>> \o DropNul(Tail(bytes))

\* $(command): the output of the command without NUL bytes, which a shell
\* variable cannot hold, and without the newlines at its end
CommandSubstitution(output) == StripTrailingNewlines(DropNul(output))

\* "$INSTRUCTION" in double quotes: one word, whatever the value holds
DoubleQuoted(value) == << value >>

\* [lindex $argv i] (the index counts from 0)
lindex(list, i) == list[i + 1]

\* create_run_agent_commands is called with an instruction
TransportInit ==
  /\ SessionOff
  /\ ObjectOff
  /\ tpc = "python"
  /\ instruction \in Instructions
  /\ wire = <<>>

\* instruction_b64 = base64.b64encode(instruction.encode()).decode()
EncodeInstruction ==
  /\ tpc = "python"
  /\ tpc' = "encoded"
  /\ wire' = b64encode(instruction)
  /\ UNCHANGED <<instruction, svars, avars>>

\* the script, with instruction_b64 in it, is itself base64-encoded and
\* written by   echo '{script_b64}' | base64 -d > /tmp/run-agent.sh
WriteScript ==
  /\ tpc = "encoded"
  /\ tpc' = "script"
  /\ wire' = Base64Decode(Echo(b64encode(wire)))
  /\ UNCHANGED <<instruction, svars, avars>>

\* INSTRUCTION=$(echo "{instruction_b64}" | base64 -d)
DecodeInstruction ==
  /\ tpc = "script"
  /\ tpc' = "shell"
  /\ wire' = CommandSubstitution(Base64Decode(Echo(wire)))
  /\ UNCHANGED <<instruction, svars, avars>>

\* /tmp/run-agent.exp "{agent_path}" "$INSTRUCTION" and, in the script,
\* set instruction [lindex $argv 1]
ReadArgv ==
  /\ tpc = "shell"
  /\ tpc' = "expect"
  /\ wire' = lindex(<< <<>> >> \o DoubleQuoted(wire), 1)
  /\ UNCHANGED <<instruction, svars, avars>>

\* spawn $agent_bin "$instruction": the variable is substituted once, as
\* one word
SpawnArgument ==
  /\ tpc = "expect"
  /\ tpc' = "spawned"
  /\ wire' = lindex(DoubleQuoted(wire), 0)
  /\ UNCHANGED <<instruction, svars, avars>>

TransportNext ==
  \/ EncodeInstruction
  \/ WriteScript
  \/ DecodeInstruction
  \/ ReadArgv
  \/ SpawnArgument

TransportSpec == TransportInit /\ [][TransportNext]_vars

-----------------------------------------------------------------------------
(* The MyAgent object: __init__, setup, create_run_agent_commands *)

\* number of method calls followed after the first __init__
MaxCalls == 4

\* a path or an output is a sequence of pieces; an absolute path starts
\* with the piece "/"
UsrBin == << "/", "usr/bin/my-agent" >>
UsrLocalBin == << "/", "usr/local/bin/my-agent" >>
RootLocalBin == << "/", "root/.local/bin/my-agent" >>
OptBin == << "/", "opt/my-agent/bin/my-agent" >>

\* possible_paths, in the order of the list
possible_paths == << UsrBin, UsrLocalBin, RootLocalBin >>

\* the default of getattr and the last fallback of setup
DefaultPath == UsrLocalBin

\* what   which my-agent || echo 'NOT_FOUND'   prints: the path found, or
\* the text NOT_FOUND, and a newline
WhichOutputs ==
  { UsrBin \o <<LF>>, OptBin \o <<LF>>, << "NOT_FOUND", LF >> }

\* str.strip() of an output: without the newlines at its ends
RECURSIVE strip(_)
strip(s) ==
  IF s # <<>> /\ Head(s) = LF THEN strip(Tail(s))
  ELSE IF s # <<>> /\ s[Len(s)] = LF THEN strip(SubSeq(s, 1, Len(s) - 1))
  ELSE s

\* s.startswith("/")
StartsWithSlash(s) == s # <<>> /\ Head(s) = "/"

\* "NOT_FOUND" in s
HasNotFound(s) == \E i \in 1..Len(s) : s[i] = "NOT_FOUND"

\* agent_exists = stdout.startswith("/") and "NOT_FOUND" not in stdout
agent_exists(stdout) == StartsWithSlash(stdout) /\ ~HasNotFound(stdout)

\* the for loop over possible_paths with its else branch: the first path
\* of the list that test -x reports, or else the second which output if it
\* is absolute, or else the default path
RECURSIVE FirstExisting(_, _)
FirstExisting(exists, i) ==
  IF i > Len(possible_paths) THEN <<>>
  ELSE IF possible_paths[i] \in exists THEN possible_paths[i]
  ELSE FirstExisting(exists, i + 1)

FoundAfterInstall(exists, which2) ==
  IF FirstExisting(exists, 1) # <<>> THEN FirstExisting(exists, 1)
  ELSE IF StartsWithSlash(strip(which2)) THEN strip(which2)
  ELSE DefaultPath

\* getattr(obj, name, default): the default only when the attribute is
\* missing; an attribute that is there is returned, None included
GetAttr(attr, default) == IF attr = PyMissing THEN default ELSE attr

\* {agent_path} in the f-string: str() of the value
FormatValue(v) == IF v = PyNone THEN << "None" >> ELSE v

\* the object right after MyAgent(...): self._agent_path = None, no
\* script generated yet
ObjectInit ==
  /\ SessionOff
  /\ TransportOff
  /\ apc = "init"
  /\ agent_path = PyNone
  /\ script_agent = <<>>
  /\ which_out = <<>>
  /\ installed = FALSE
  /\ calls = 0

\* __init__ (of a new object, or called again): self._agent_path = None
MyAgentInit ==
  /\ apc # "off"
  /\ calls < MaxCalls
  /\ calls' = calls + 1
  /\ apc' = "init"
  /\ agent_path' = PyNone
  /\ script_agent' = <<>>
  /\ which_out' = <<>>
  /\ installed' = FALSE
  /\ UNCHANGED <<svars, tvars>>

\* setup: the first which probe; if it reports the agent, its output is
\* the path; otherwise super().setup installs, and the path is looked for
\* with test -x, a second which and the default
setup ==
  /\ apc # "off"
  /\ calls < MaxCalls
  /\ calls' = calls + 1
  /\ apc' = "setup"
  /\ \E which1 \in WhichOutputs, which2 \in WhichOutputs,
        exists \in SUBSET { possible_paths[i] : i \in 1..Len(possible_paths) } :
        /\ which_out' = which1
        /\ IF agent_exists(strip(which1))
           THEN /\ agent_path' = strip(which1)
                /\ installed' = FALSE
           ELSE /\ agent_path' = FoundAfterInstall(exists, which2)
                /\ installed' = TRUE
  /\ UNCHANGED <<script_agent, svars, tvars>>

\* create_run_agent_commands: agent_path = getattr(self, '_agent_path',
\* '/usr/local/bin/my-agent'), written into the script as
\* /tmp/run-agent.exp "{agent_path}" "$INSTRUCTION"
create_run_agent_commands ==
  /\ apc # "off"
  /\ calls < MaxCalls
  /\ calls' = calls + 1
  /\ apc' = "create"
  /\ script_agent' = FormatValue(GetAttr(agent_path, DefaultPath))
  /\ UNCHANGED <<agent_path, which_out, installed, svars, tvars>>

ObjectNext ==
  \/ MyAgentInit
  \/ setup
  \/ create_run_agent_commands

ObjectSpec == ObjectInit /\ [][ObjectNext]_vars

----------------------------------------------------------------------------
(* Vocabulary of the properties *)

Range(s) == { s[i] : i \in 1..Len(s) }

Count(s, c) == Cardinality({ i \in 1..Len(s) : s[i] = c })

\* the text the supervisor has read from the child
ReadText == Concat(SubSeq(printed, 1, nread))

Contains(s, w) ==
  \E i \in 1..Len(s) :
     /\ i + Len(w) - 1 <= Len(s)
     /\ SubSeq(s, i, i + Len(w) - 1) = w

LowerCase(c) ==
  CASE c = "A" -> "a" [] c = "C" -> "c" [] c = "D" -> "d" [] c = "E" -> "e"
    [] c = "N" -> "n" [] c = "P" -> "p" [] c = "R" -> "r" [] c = "S" -> "s"
    [] c = "T" -> "t" [] c = "U" -> "u" [] c = "Y" -> "y" [] OTHER -> c

Lower(s) == [ i \in 1..Len(s) |-> LowerCase(s[i]) ]

ContainsNoCase(s, w) == Contains(Lower(s), Lower(w))

\* a completion keyword, written as in the script
HasKeyword(s) == \E k \in 1..Len(Keywords) : Contains(s, Keywords[k])

\* a completion keyword in any letter case
HasKeywordAnyCase(s) == \E k \in 1..Len(Keywords) : ContainsNoCase(s, Keywords[k])

\* the confirmation prompts: [Y/n], [y/N] and (yes/no)
PromptTexts ==
  { <<"[", "Y", "/", "n", "]">>,
    <<"[", "y", "/", "N", "]">>,
    <<"(", "y", "e", "s", "/", "n", "o", ")">> }

HasPrompt(s) == \E w \in PromptTexts : ContainsNoCase(s, w)

Ended == pc \in {"exited", "reported"}

----------------------------------------------------------------------------
(* Properties *)

\* C1 (completion precedence): once the session has ended, if a completion
\* keyword appears anywhere in the output the supervisor has read, the
\* reported exit code is 0.
C1_CompletionPrecedence ==
  (Ended /\ HasKeyword(ReadText)) => exit_code = 0

\* C2 (timeout precedence): with no completion keyword in the output and
\* the child still running, the supervisor is not still waiting for output
\* once the time since spawn exceeds the timeout (by more than the delay of
\* one rule action), and a session that ends by timeout reports 124.
C2_TimeoutPrecedence ==
  ~HasKeyword(Concat(printed)) =>
     /\ (pc = "expect" /\ child = "running") => elapsed <= Deadline + GraceDelay
     /\ outcome = "timeout" => exit_code = TimeoutCode

\* C3: whenever the supervisor has exited with the timeout outcome, the
\* child is no longer running.
C3_TimeoutKillsChild ==
  (Ended /\ outcome = "timeout") => child = "exited"

\* C4 (normal-exit passthrough): when the session ends at end-of-output
\* with no completion keyword matched, the expect script exits with the
\* child's exit code, and so does the wrapping shell script.
C4_NormalExitPassthrough ==
  (outcome = "eof" /\ task_done = 0) =>
     /\ exit_code = child_code
     /\ pc = "reported" => shell_code = child_code

\* C4 witness: a child that was auto-answered and then exited with 3 has
\* been reported by the wrapper.
C4_Witness ==
  /\ pc = "reported"
  /\ outcome = "eof"
  /\ task_done = 0
  /\ child_code = 3
  /\ shell_code = 3
  /\ Count(sent, "y") > 0

\* C5 (idempotent rule firing): for an output stream made of confirmation
\* prompts only, the supervisor never sends more 'y' answers than it has
\* read prompts, and at end-of-output it has sent exactly one per prompt.
C5_OneAnswerPerPrompt ==
  (\A i \in 1..Len(printed) : printed[i] \in PromptTexts) =>
     /\ Count(sent, "y") <= nread
     /\ outcome = "eof" => Count(sent, "y") = Len(printed)

\* C6: a 'y' is sent only if the output read so far contains a confirmation
\* prompt ([Y/n], [y/N] or (yes/no), in any letter case), and at
\* end-of-output every output with such a prompt has been answered.
C6_AnswerIffPrompt ==
  /\ ~HasPrompt(ReadText) => Count(sent, "y") = 0
  /\ (outcome = "eof" /\ HasPrompt(ReadText)) => Count(sent, "y") > 0

\* C7: when the output contains a completion keyword in any letter case
\* and no other rule has fired, then at end-of-output the task is marked
\* complete and the interrupt has been sent.
C7_KeywordAnyCase ==
  (outcome = "eof" /\ HasKeywordAnyCase(ReadText) /\ Count(sent, "y") = 0
     /\ Count(sent, CR) = 0) =>
     (task_done = 1 /\ Count(sent, ETX) > 0)

\* C8: once the interrupt has been sent, the supervisor does not go back
\* to waiting for the child: no time passes in the expect command after
\* the interrupt, and when the session has ended the status is 0.
C8_ExitAfterGrace ==
  Count(sent, ETX) > 0 =>
     /\ pc = "expect" => timer = 0
     /\ Ended => exit_code = 0

\* C9, as stated: if the child ended during the grace delay that follows a
\* completion match, the end-of-output branch exits with the child's real
\* exit code.
C9_RealCodeInGrace ==
  (outcome = "eof" /\ exited_in_grace) => exit_code = child_code

\* C9, amended: if the child ended during the grace delay that follows a
\* completion match, the end-of-output branch exits with 0, whatever the
\* child's exit code.
C9_ZeroInGrace ==
  (outcome = "eof" /\ exited_in_grace) => exit_code = 0

\* C9 witness: a child that ended with code 3 during the grace delay and
\* whose end-of-output has been handled.
C9_Witness ==
  /\ outcome = "eof"
  /\ exited_in_grace
  /\ child_code = 3
  /\ Count(sent, ETX) > 0

\* C10, as stated: every session that ends in the timeout outcome reports
\* exit code 124.
C10_TimeoutAlways124 ==
  outcome = "timeout" => exit_code = TimeoutCode

\* C10, amended: a session that ends in the timeout outcome reports 124
\* when no completion keyword was matched, and 0 when one was.
C10_TimeoutCodeByCompletion ==
  outcome = "timeout" =>
     /\ task_done = 0 => exit_code = TimeoutCode
     /\ task_done = 1 => exit_code = 0

\* C10 witness: both timeout results have been produced: this one is the
\* timeout of a session in which a prompt was answered and no keyword seen.
C10_Witness ==
  /\ outcome = "timeout"
  /\ task_done = 0
  /\ exit_code = TimeoutCode
  /\ Count(sent, "y") > 0

C12_SpawnError ==
  ~bin_ok =>
     /\ pc \in {"spawn", "exited", "reported"}
     /\ sent = <<>>
     /\ nread = 0
     /\ child = "none"
     /\ spawn_id = "none"
     /\ Ended => (outcome = "error" /\ exit_code \notin {0, TimeoutCode})
     /\ pc = "reported" => shell_code \notin {0, TimeoutCode}

\* C12 witness: the session of a missing binary has been reported with the
\* error status.
C12_Witness ==
  /\ ~bin_ok
  /\ pc = "reported"
  /\ outcome = "error"
  /\ shell_code = ErrorCode

\* C13: when the timeout deadline falls inside the sleep of a rule (0.3 s
\* before the bare carriage return, 2 s before the interrupt), the next
\* step of the supervisor is the timeout outcome, not the pending send.
C13_SleepYieldsToTimeout ==
  [][ ( \/ (pc = "choice_sleep" /\ timer + ChoiceDelay > Deadline)
        \/ (pc = "done_sleep" /\ timer + GraceDelay > Deadline) )
      => (pc' = pc \/ pc' = "cancelled" \/ outcome' = "timeout") ]_vars

\* C14: for every instruction, the argument the child is spawned with is
\* identical to the instruction given to create_run_agent_commands.
C14_TransportRoundTrip == tpc = "spawned" => wire = instruction

\* C15: once the end-of-output or the timeout branch has been taken the
\* script is over: from then on nothing is read, matched or sent, task_done
\* and the outcome stay as they are, and the exit code, like the code
\* reported by the wrapper, is set once and never changes.
C15_TerminalFinal ==
  /\ [](outcome # "none" => pc \in {"exited", "reported", "cancelled"})
  /\ [][ outcome # "none" =>
           /\ sent' = sent
           /\ buf' = buf
           /\ nread' = nread
           /\ task_done' = task_done
           /\ outcome' = outcome
           /\ exit_code' = exit_code ]_vars
  /\ [][ shell_code # NoCode => shell_code' = shell_code ]_vars

\* C15 witness: a session that timed out has been reported while output of
\* the child was left unread, and the child has ended since.
C15_Witness ==
  /\ pc = "reported"
  /\ outcome = "timeout"
  /\ nread < Len(printed)
  /\ child = "exited"

\* C16: the interrupt is never sent while task_done is 0, and in the run of
\* Scenario A that ends at end-of-output the supervisor has sent exactly
\* one 'y' answer and then the interrupt, and exits with 0.
C16_CompletionOrder ==
  /\ Count(sent, ETX) > 0 => task_done = 1
  /\ (agent = "scenario_a" /\ outcome = "eof" /\ printed = ScenarioA) =>
        (sent = <<"y", CR, ETX>> /\ exit_code = 0)

\* the three phrases of the numbered-choice rule
ChoiceTexts ==
  { <<"1", ".", " ", "Y", "e", "s">>,
    <<"1", ".", " ", "C", "o", "n", "t", "i", "n", "u", "e">>,
    <<"1", ".", " ", "A", "c", "c", "e", "p", "t">> }

\* C17: a bare carriage return (one that does not follow a 'y') is sent
\* only if the output read contains "1. Yes", "1. Continue" or "1. Accept"
\* with a literal period, and the output "1. Accept" alone is answered by
\* exactly one bare carriage return.
C17_ChoiceLiteral ==
  /\ Count(sent, CR) > Count(sent, "y") =>
        \E w \in ChoiceTexts : Contains(ReadText, w)
  /\ (outcome = "eof" /\ Len(printed) = 1 /\ printed[1] \in ChoiceTexts) =>
        sent = <<CR>>

\* C18: task_done changes only from 0 to 1 and only by the completion rule,
\* and every end-of-output or timeout branch taken with task_done = 1
\* reports exit code 0.
C18_TaskDoneMonotonic ==
  /\ [][ task_done' # task_done =>
           /\ task_done = 0
           /\ task_done' = 1
           /\ pc = "expect"
           /\ FirstRule(buf) = 3 ]_vars
  /\ []((task_done = 1 /\ outcome \in {"eof", "timeout"}) => exit_code = 0)

\* C18 witness: after the completion rule fired (interrupt sent) the
\* confirmation rule fired again, and the session then timed out with 0.
C18_Witness ==
  /\ task_done = 1
  /\ outcome = "timeout"
  /\ exit_code = 0
  /\ \E i, j \in 1..Len(sent) : i < j /\ sent[i] = ETX /\ sent[j] = "y"

\* C19: when the child hangs without output, the enclosing command is not
\* cancelled: the expect timeout branch runs and run-agent.sh reports
\* before the timeout of the enclosing command expires.
C19_InnerTimeoutObservable ==
  (bin_ok /\ printed = <<>> /\ child = "running") => pc # "cancelled"

\* C20: in every call order the script that create_run_agent_commands has
\* just generated invokes an absolute agent path (the path set by setup,
\* or the default when setup set none), a finished setup leaves an
\* absolute path, and its install step ran exactly when the first which
\* probe did not report an absolute path.
C20_AbsoluteAgentPath ==
  /\ apc = "create" =>
        /\ StartsWithSlash(script_agent)
        /\ script_agent = (IF agent_path = PyNone THEN DefaultPath
                           ELSE agent_path)
  /\ apc = "setup" =>
        /\ StartsWithSlash(agent_path)
        /\ installed = ~StartsWithSlash(strip(which_out))

====
